---------------------------- MODULE Spec2Model ----------------------------
(***************************************************************************)
(* The LangGraph calendar agent of backend/langgraph_agent.py: one /chat   *)
(* run of the two-node graph (agent = run_llm, action = execute_tools),    *)
(* the proxy tool mcp_calendar_tool and the /mcp/call endpoint it posts    *)
(* to; the proxy tool on its own inputs; the two MCP servers and their     *)
(* event store; two /chat runs side by side.                               *)
(*                                                                         *)
(* The graph state is AgentState.messages, declared with the reducer      *)
(* operator.add: what a node returns under "messages" is concatenated to   *)
(* the list the graph holds.                                               *)
(***************************************************************************)
EXTENDS Integers, Sequences, FiniteSets, TLC

VARIABLES
    llm_with_tools,  \* module global: TRUE when ChatOllama was constructed
    pc,              \* "idle", "agent", "action" (next graph node), "done"
    messages,        \* AgentState.messages of the run
    steps,           \* graph supersteps executed by graph.invoke
    outcome,         \* what the /chat caller receives
    nextId,          \* next tool_call id the Decision Provider hands out
    \* ---- history variables (observers, never read by the actions' guards)
    produced,        \* seed turn and every produced turn, in production order
    decisions,       \* number of run_llm steps that returned a turn
    firstEmpty,      \* decision step of the first turn without tool calls, 0 if none
    executed,        \* ids of the tool calls handed to the executor, in order
    lastNode,        \* node that ran last: "none", "agent", "action"
    lastNets,        \* what the network did with each call of the last tool step
    llmFailedAt,     \* decision step at which the provider raised, 0 if none
    \* ---- one invocation of mcp_calendar_tool on its own
    proxy,           \* its frame: tool_name, kwargs, then params, mcp_tool_id, output
    \* ---- the MCP server process behind MCP_SERVER_URL
    server,          \* which program serves: "email_mcp_server", "mcp_calendar_server"
    events_db,       \* module global events_db: event id -> Event
    registry,        \* module global MCP_TOOLS: the names of the listed tools
    served,          \* the last request the server answered, with its answer
    \* ---- two /chat runs side by side
    runs             \* graph state and position of each invocation of graph.invoke

chatVars == <<llm_with_tools, pc, messages, steps, outcome, nextId,
              produced, decisions, firstEmpty, executed, lastNode, lastNets,
              llmFailedAt>>

proxyVars == <<proxy>>

serverVars == <<server, events_db, registry, served>>

runsVars == <<runs>>

vars == <<chatVars, proxyVars, serverVars, runsVars>>

hist == <<produced, decisions, firstEmpty, executed, lastNode, lastNets,
          llmFailedAt>>

-----------------------------------------------------------------------------
(* Bounds of the model *)

\* graph.invoke is called without a config, so LangGraph's recursion_limit
\* (default 25 supersteps) applies; the model runs a smaller limit.
RecursionLimit == 5

\* Total number of tool requests the Decision Provider issues in one run.
MaxRequests == 3

\* Wrapper levels ("kwargs" bound to a mapping) in the arguments the proxy
\* tool is called with.
MaxDepth == 2

\* Number of event ids generate_event_id hands out.
MaxEvents == 2

\* Number of events a Google Calendar listing returns at most.
MaxFetched == 2

\* Text of the user message of the run.
UserTexts == {"hello"}

\* Texts of final assistant turns.
Texts == {"hello", "done"}

\* Text of an assistant turn that requests tools (Ollama leaves it empty).
ToolTurnText == ""

-----------------------------------------------------------------------------
(* Messages *)

NoCalls == << >>

HumanMessage(text) ==
    [type |-> "human", content |-> [text |-> text], tool_calls |-> NoCalls,
     tool_call_id |-> 0]

AIMessage(text, calls) ==
    [type |-> "ai", content |-> [text |-> text], tool_calls |-> calls,
     tool_call_id |-> 0]

ToolMessage(output, id) ==
    [type |-> "tool", content |-> output, tool_calls |-> NoCalls,
     tool_call_id |-> id]

\* Mutant: a channel without reducer, the update replaces the list.
operator_add_Replace(old, update) == update

\* Annotated[List[BaseMessage], operator.add]: the reducer of the channel.
operator_add(old, update) == old \o update


-----------------------------------------------------------------------------
(* The MCP server behind MCP_SERVER_URL: POST /mcp/call *)

\* The tool ids call_tool dispatches to a handler.
ServerTools ==
    {"calendar_create_event", "calendar_send_reminder",
     "calendar_sync_google", "calendar_import_google"}

\* What a dispatched handler does with one call:
\*   "ok"       it returns {"success": True, ...}
\*   "raises"   it raises HTTPException (404 event not found, 400) or fails
Handlers == {"ok", "raises"}

HttpResponse(status, isJson, success, tool) ==
    [status |-> status, json |-> isJson, success |-> success, tool |-> tool]

\* call_tool: the if/elif chain over request.tool; the else branch raises
\* HTTPException(400, "Unknown tool: <tool>").
call_tool(tool, handler) ==
    IF tool \in ServerTools
    THEN IF handler = "ok" THEN HttpResponse(200, TRUE, TRUE, "")
         ELSE HttpResponse(404, TRUE, FALSE, "")
    ELSE HttpResponse(400, TRUE, FALSE, tool)

-----------------------------------------------------------------------------
(* The proxy tool mcp_calendar_tool *)

\* The network between the agent and the MCP server, for one requests.post:
\*   "unreachable"  requests raises RequestException
\*   "garbled"      a 200 answer whose body is not JSON
\*   a handler kind the server answers, its handler behaving that way
Nets == {"unreachable", "garbled"} \cup Handlers

\* **kwargs of mcp_calendar_tool: a mapping from keys to values, a value being
\* a string or itself a mapping. The keys the model uses: the wrapper key and
\* two tool parameters.
Keys == {"kwargs", "title", "event_id"}

\* The values that are not mappings.
Scalars == {[scalar |-> "text"]}

\* isinstance(v, dict)
IsMapping(v) == "scalar" \notin DOMAIN v

\* The mappings over the keys K whose values are all strings.
FlatMappings(K) == UNION {[S -> Scalars] : S \in SUBSET K}

\* The argument mappings with at most d wrapper levels: any of the tool
\* parameters, and possibly the key "kwargs" bound to a string or to a
\* mapping with at most d - 1 wrapper levels.
RECURSIVE Mappings(_)
Mappings(d) ==
    {siblings @@ wrapper :
        siblings \in FlatMappings(Keys \ {"kwargs"}),
        wrapper \in {<< >>} \cup
            {("kwargs" :> v) :
                v \in Scalars \cup (IF d = 0 THEN {} ELSE Mappings(d - 1))}}

\* Mutant: every wrapper level is removed, not only the outermost.
RECURSIVE Normalize_Deep(_)
Normalize_Deep(kwargs) ==
    IF "kwargs" \in DOMAIN kwargs /\ IsMapping(kwargs["kwargs"])
    THEN Normalize_Deep(kwargs["kwargs"])
    ELSE kwargs

\* Step 1 of mcp_calendar_tool, the effective arguments params:
\*   if "kwargs" in kwargs and isinstance(kwargs["kwargs"], dict):
\*       params = kwargs["kwargs"]
\*   else: params = dict(kwargs)
Normalize(kwargs) ==
    IF "kwargs" \in DOMAIN kwargs /\ IsMapping(kwargs["kwargs"])
    THEN kwargs["kwargs"]
    ELSE kwargs

TOOL_NAME_MAP ==
    ("create_calendar_event_tool" :> "calendar_create_event") @@
    ("send_calendar_reminder_tool" :> "calendar_send_reminder") @@
    ("sync_google_calendar_tool" :> "calendar_sync_google") @@
    ("import_google_calendar_tool" :> "calendar_import_google") @@
    ("calendar_create_event" :> "calendar_create_event") @@
    ("calendar_send_reminder" :> "calendar_send_reminder") @@
    ("calendar_sync_google" :> "calendar_sync_google") @@
    ("calendar_import_google" :> "calendar_import_google")

\* Mutant: the name is posted as it was given, the table is not consulted.
ResolveToolName_Identity(tool_name) == tool_name

\* TOOL_NAME_MAP.get(tool_name, tool_name)
ResolveToolName(tool_name) ==
    IF tool_name \in DOMAIN TOOL_NAME_MAP THEN TOOL_NAME_MAP[tool_name]
    ELSE tool_name

\* A tool output: the dict that becomes the content of the ToolMessage.
\* error is the kind of message, status the HTTP status quoted in it (0 if
\* none) and names the tool name quoted in it ("" if none).
Output(success, error, status, names) ==
    [success |-> success, error |-> error, status |-> status, names |-> names]

\* Mutant: resp.ok is not tested, the body of an error answer is returned.
PostToServer_NoStatusCheck(mcp_tool_id, net) ==
    IF net = "unreachable"
    THEN Output(FALSE, "Error communicating with MCP Server", 0, "")
    ELSE LET resp == IF net = "garbled" THEN HttpResponse(200, FALSE, FALSE, "")
                     ELSE call_tool(mcp_tool_id, net)
         IN  IF ~resp.json
             THEN Output(FALSE, "MCP server returned non-JSON response", 0, "")
             ELSE Output(resp.success, "", 0, "")

\* Step 3 of mcp_calendar_tool: the POST and the three ways it fails.
PostToServer(mcp_tool_id, net) ==
    IF net = "unreachable"
    THEN Output(FALSE, "Error communicating with MCP Server", 0, "")
    ELSE LET resp == IF net = "garbled" THEN HttpResponse(200, FALSE, FALSE, "")
                     ELSE call_tool(mcp_tool_id, net)
         IN  IF resp.status >= 400
             THEN Output(FALSE, "MCP server returned", resp.status, resp.tool)
             ELSE IF ~resp.json
                  THEN Output(FALSE, "MCP server returned non-JSON response", 0, "")
                  ELSE Output(resp.success, "", 0, "")

mcp_calendar_tool(tool_name, net) ==
    PostToServer(ResolveToolName(tool_name), net)

\* mcp_calendar_tool.invoke(args) inside the try of execute_tools: args
\* without the required tool_name make invoke raise, which is caught.
InvokeTool(args, net) ==
    IF "tool_name" \in DOMAIN args
    THEN mcp_calendar_tool(args.tool_name, net)
    ELSE Output(FALSE, "Error executing mcp_calendar_tool", 0, "")

\* Mutant: the top-level name is not compared, every call goes to the proxy.
ToolOutput_NoNameCheck(call, net) == InvokeTool(call.args, net)

\* The if/else on the top-level name of one tool call.
ToolOutput(call, net) ==
    IF call.name = "mcp_calendar_tool"
    THEN InvokeTool(call.args, net)
    ELSE Output(FALSE, "Unknown tool requested", 0, call.name)

-----------------------------------------------------------------------------
(* The graph nodes *)

Last(msgs) == msgs[Len(msgs)]

\* run_llm: the update it returns for the turn `result` of the provider.
run_llm(llm, msgs, result) ==
    IF ~llm
    THEN << AIMessage("The AI agent backend is currently unavailable.", NoCalls) >>
    ELSE << result >>

RECURSIVE AllToolCalls(_)
AllToolCalls(msgs) ==
    IF msgs = << >> THEN << >>
    ELSE AllToolCalls(SubSeq(msgs, 1, Len(msgs) - 1)) \o Last(msgs).tool_calls

\* Mutant: the tool calls of every message of the history, not of the last.
ToolCallsToRun_AllTurns(msgs) == AllToolCalls(msgs)

\* The tool calls execute_tools iterates over: those of the last message.
ToolCallsToRun(msgs) == Last(msgs).tool_calls

\* Mutant: the tool messages are collected in the reverse of request order.
execute_tools_Reversed(msgs, nets) ==
    LET iterable == ToolCallsToRun(msgs)
        n == Len(iterable)
        tool_messages ==
            [i \in 1..n |->
                ToolMessage(ToolOutput(iterable[n + 1 - i], nets[n + 1 - i]),
                            iterable[n + 1 - i].id)]
    IN  IF iterable = NoCalls THEN msgs
        ELSE msgs \o tool_messages

\* execute_tools: the update it returns, nets[i] being what the network and
\* the server do with call i.
execute_tools(msgs, nets) ==
    LET iterable == ToolCallsToRun(msgs)
        tool_messages ==
            [i \in 1..Len(iterable) |->
                ToolMessage(ToolOutput(iterable[i], nets[i]), iterable[i].id)]
    IN  IF iterable = NoCalls THEN msgs
        ELSE msgs \o tool_messages

\* The ids of the calls one execute_tools step hands to the executor.
ExecutedIds(msgs) ==
    [i \in 1..Len(ToolCallsToRun(msgs)) |-> ToolCallsToRun(msgs)[i].id]

\* Mutant: "tool_calls is not None" in place of the truth test, so that an
\* empty list of tool calls continues to the tools.
should_continue_NotNone(msgs) ==
    IF Last(msgs).type = "ai" THEN "continue_to_tools" ELSE "end_graph"

should_continue(msgs) ==
    IF Last(msgs).tool_calls # NoCalls THEN "continue_to_tools" ELSE "end_graph"

\* add_conditional_edges("agent", should_continue, {...})
AfterAgent(msgs) ==
    IF should_continue(msgs) = "continue_to_tools" THEN "action" ELSE "END"

\* Mutant: the edge out of "action" leads back to "action".
AfterAction_Self == "action"

\* add_edge("action", "agent")
AfterAction == "agent"

-----------------------------------------------------------------------------
(* The /chat endpoint *)

NoOutcome == [kind |-> "none", status |-> 0, body |-> [text |-> ""]]

\* Mutant: the exception leaves the endpoint as it was raised.
HTTPException_Unhandled(status, detail) ==
    [kind |-> "exception", status |-> status, body |-> [text |-> detail]]

HTTPException(status, detail) ==
    [kind |-> "error", status |-> status, body |-> [text |-> detail]]

\* Mutant: the response taken from messages[0] in place of messages[-1].
ChatResponse_First(final_messages) ==
    [kind |-> "response", status |-> 200, body |-> final_messages[1].content]

\* The tail of chat_with_agent: the response built from the final state.
ChatResponse(final_messages) ==
    LET final_message == Last(final_messages)
    IN  [kind |-> "response", status |-> 200,
         body |-> IF final_message.type = "ai" THEN final_message.content
                  ELSE [text |-> "str(message)"]]

-----------------------------------------------------------------------------
(* The Decision Provider: what chain.invoke may return *)

\* The tool_name values the provider uses: a name of TOOL_NAME_MAP and a name
\* that is neither an alias nor a tool id.
ProviderToolNames == {"create_calendar_event_tool", "bogus_tool"}

\* The tool calls the provider may put in a turn: the proxy tool with a
\* tool_name, the proxy tool without one, and a tool that is not bound.
CallKinds ==
    {[name |-> "mcp_calendar_tool", args |-> [tool_name |-> t]] :
        t \in ProviderToolNames}
    \cup {[name |-> "mcp_calendar_tool", args |-> [title |-> "Meeting"]],
          [name |-> "send_email", args |-> [title |-> "Meeting"]]}

ToolCall(id, kind) == [id |-> id, name |-> kind.name, args |-> kind.args]

\* The turns chain.invoke may return when the next free tool_call id is id:
\* a final turn with a text and no tool call, or a turn with 1 or more tool
\* calls carrying fresh ids.
ProviderTurns(id) ==
    {AIMessage(text, NoCalls) : text \in Texts}
    \cup
    {AIMessage(ToolTurnText,
               [i \in 1..Len(kinds) |-> ToolCall(id + i - 1, kinds[i])]) :
        kinds \in UNION {[1..n -> CallKinds] : n \in 1..(MaxRequests + 1 - id)}}

\* Whether executing the call posts to the MCP server at all; the network
\* does nothing ("none") with a call that never reaches it.
UsesNetwork(call) ==
    call.name = "mcp_calendar_tool" /\ "tool_name" \in DOMAIN call.args

NetsFor(calls) ==
    {nets \in [1..Len(calls) -> Nets \cup {"none"}] :
        \A i \in 1..Len(calls) : (nets[i] = "none") <=> ~UsesNetwork(calls[i])}

-----------------------------------------------------------------------------
(* Actions *)

\* Nothing has called the proxy tool on its own.
ProxyIdle == proxy = [state |-> "idle"]

\* No MCP server is looked at.
ServerIdle ==
    /\ server = "none"
    /\ events_db = << >>
    /\ registry = {}
    /\ served = [endpoint |-> "none"]

\* No second invocation is looked at.
RunsIdle == runs = << >>

\* No /chat request has arrived.
ChatIdle ==
    /\ pc = "idle"
    /\ messages = << >>
    /\ steps = 0
    /\ outcome = NoOutcome
    /\ nextId = 1
    /\ produced = << >>
    /\ decisions = 0
    /\ firstEmpty = 0
    /\ executed = << >>
    /\ lastNode = "none"
    /\ lastNets = << >>
    /\ llmFailedAt = 0

Init ==
    /\ llm_with_tools \in BOOLEAN
    /\ ChatIdle
    /\ ProxyIdle
    /\ ServerIdle
    /\ RunsIdle

\* chat_with_agent, llm_with_tools unset: HTTP 503 before the graph runs.
ChatUnavailable ==
    /\ pc = "idle"
    /\ ~llm_with_tools
    /\ outcome' = HTTPException(503, "LLM backend is unavailable")
    /\ pc' = "done"
    /\ UNCHANGED <<llm_with_tools, messages, steps, nextId, hist>>
    /\ UNCHANGED <<proxyVars, serverVars, runsVars>>

\* chat_with_agent up to graph.invoke: the seed message, entry point "agent".
ChatStart ==
    /\ pc = "idle"
    /\ llm_with_tools
    /\ \E text \in UserTexts :
        /\ messages' = << HumanMessage(text) >>
        /\ produced' = << HumanMessage(text) >>
    /\ pc' = "agent"
    /\ UNCHANGED <<llm_with_tools, steps, outcome, nextId, decisions,
                   firstEmpty, executed, lastNode, lastNets, llmFailedAt>>
    /\ UNCHANGED <<proxyVars, serverVars, runsVars>>

\* One superstep of node "agent": run_llm returns a turn, the reducer adds it,
\* should_continue routes; on END graph.invoke returns and /chat answers.
AgentReplies ==
    /\ pc = "agent"
    /\ steps < RecursionLimit
    /\ \E result \in ProviderTurns(nextId) :
        LET update == run_llm(llm_with_tools, messages, result)
            new    == operator_add(messages, update)
            next   == AfterAgent(new)
            n      == Len(result.tool_calls)
        IN  /\ messages' = new
            /\ produced' = produced \o update
            /\ nextId' = nextId + n
            /\ firstEmpty' = IF firstEmpty = 0 /\ n = 0
                             THEN decisions + 1 ELSE firstEmpty
            /\ pc' = IF next = "END" THEN "done" ELSE next
            /\ outcome' = IF next = "END" THEN ChatResponse(new) ELSE outcome
    /\ steps' = steps + 1
    /\ decisions' = decisions + 1
    /\ lastNode' = "agent"
    /\ UNCHANGED <<llm_with_tools, executed, lastNets, llmFailedAt>>
    /\ UNCHANGED <<proxyVars, serverVars, runsVars>>

\* Node "agent" when chain.invoke raises (Ollama unreachable): the exception
\* leaves graph.invoke and the except of chat_with_agent answers HTTP 500.
AgentFails ==
    /\ pc = "agent"
    /\ steps < RecursionLimit
    /\ outcome' = HTTPException(500, "AI Agent Error")
    /\ pc' = "done"
    /\ llmFailedAt' = decisions + 1
    /\ UNCHANGED <<llm_with_tools, messages, steps, nextId, produced,
                   decisions, firstEmpty, executed, lastNode, lastNets>>
    /\ UNCHANGED <<proxyVars, serverVars, runsVars>>

\* One superstep of node "action": execute_tools returns its update, the
\* reducer adds it, the edge leads back to "agent".
ActionStep ==
    /\ pc = "action"
    /\ steps < RecursionLimit
    /\ \E nets \in NetsFor(ToolCallsToRun(messages)) :
        LET update == execute_tools(messages, nets)
        IN  /\ messages' = operator_add(messages, update)
            /\ produced' = produced \o
                   SubSeq(update, Len(update) - Len(nets) + 1, Len(update))
            /\ lastNets' = nets
    /\ executed' = executed \o ExecutedIds(messages)
    /\ steps' = steps + 1
    /\ pc' = AfterAction
    /\ lastNode' = "action"
    /\ UNCHANGED <<llm_with_tools, outcome, nextId, decisions, firstEmpty,
                   llmFailedAt>>
    /\ UNCHANGED <<proxyVars, serverVars, runsVars>>

\* graph.invoke after RecursionLimit supersteps with a node still to run:
\* GraphRecursionError, answered HTTP 500 by the except of chat_with_agent.
RecursionLimitReached ==
    /\ pc \in {"agent", "action"}
    /\ steps = RecursionLimit
    /\ outcome' = HTTPException(500, "AI Agent Error")
    /\ pc' = "done"
    /\ UNCHANGED <<llm_with_tools, messages, steps, nextId, hist>>
    /\ UNCHANGED <<proxyVars, serverVars, runsVars>>

Next ==
    \/ ChatUnavailable
    \/ ChatStart
    \/ AgentReplies
    \/ AgentFails
    \/ ActionStep
    \/ RecursionLimitReached

Spec == Init /\ [][Next]_vars

\* graph.invoke runs the supersteps to completion, one after the other.
FairSpec == Spec /\ WF_vars(Next)

-----------------------------------------------------------------------------
(* The two MCP servers: events, parameters, answers *)

\* The two programs that can serve MCP_SERVER_URL.
Servers == {"email_mcp_server", "mcp_calendar_server"}

\* Event ids: the uuid4 strings of generate_event_id, the ids Google gives its
\* events, and an id that is never stored.
LocalIds == {<<"uuid", i>> : i \in 1..MaxEvents}

GoogleIds == {<<"google", i>> : i \in 1..MaxFetched}

MissingId == <<"uuid", 0>>

\* google_event_id of an event that was never synced (None).
NoGoogleId == <<"google", 0>>

\* The id Google gives to the event it inserts for a local event.
InsertedId(event_id) == <<"synced", event_id[2]>>

\* class Event: the fields the handlers read and write. attendees has the
\* default of the class, []; notify_attendees keeps its default, True, since
\* no request of the model carries it.
Event(id, title, start_time, google_event_id) ==
    [id |-> id, title |-> title, start_time |-> start_time,
     google_event_id |-> google_event_id, attendees |-> << >>]

\* background_tasks.add_task(send_email_notification, event, recipient, type)
Email(recipient, notification_type) ==
    [recipient |-> recipient, notification_type |-> notification_type]

\* "if event.notify_attendees and event.attendees: for attendee in ...":
\* one email of the type to each attendee.
NotifyAttendees(event, notification_type) ==
    [i \in 1..Len(event.attendees) |->
        Email(event.attendees[i], notification_type)]

\* The time strings of the requests, and the datetime of those that parse_datetime
\* can parse; for any other string fromisoformat and strptime both raise.
TimeStrings == {"2025-12-12T13:00:00Z", "tomorrow"}

ParsedTimes ==
    "2025-12-12T13:00:00Z" :> [date |-> "2025-12-12", hour |-> 13, tz |-> "+00:00"]

CanParse(dt_str) == dt_str \in DOMAIN ParsedTimes

parse_datetime(dt_str) == ParsedTimes[dt_str]

\* events_db[event.id] = event, and del events_db[event_id]
Put(db, event) == (event.id :> event) @@ db

Remove(db, event_id) == [k \in DOMAIN db \ {event_id} |-> db[k]]

\* request.parameters of POST /mcp/call. The details of an event (end_time
\* goes with start_time, and there is one attendee), with or without
\* sync_to_google:
DetailParameters ==
    {[title |-> "Meeting", start_time |-> t,
      attendees |-> << "guest@example.com" >>] : t \in TimeStrings}
    \cup {[title |-> "Meeting", start_time |-> t,
           attendees |-> << "guest@example.com" >>,
           sync_to_google |-> TRUE] : t \in TimeStrings}

\* an event_id, with or without a recipient:
IdParameters ==
    {[event_id |-> id, recipient |-> "guest@example.com"] :
        id \in LocalIds \cup GoogleIds \cup {MissingId}}
    \cup {[event_id |-> id] : id \in {<<"uuid", 1>>, MissingId}}

\* an event_id with new values:
UpdateParameters ==
    {[event_id |-> id, title |-> "Review", start_time |-> t] :
        id \in LocalIds \cup {MissingId}, t \in TimeStrings}

\* The parameters the requests for a tool carry: those the tool reads, and
\* none at all.
ParametersFor(tool) ==
    {<< >>} \cup
    CASE tool = "calendar_create_event" -> DetailParameters
      [] tool = "calendar_update_event" -> UpdateParameters
      [] tool \in {"calendar_delete_event", "calendar_send_reminder"} ->
             IdParameters
      [] tool = "calendar_sync_google" ->
             IdParameters \cup
             {[title |-> "Meeting", start_time |-> t] : t \in TimeStrings}
      [] OTHER -> {}

\* What Google Calendar does with the calls of one request: answer "ok" or
\* "fails" (any exception of the client), and for a listing the fetched
\* events in order, each well-formed or not (a missing 'start', a dateTime
\* that fromisoformat rejects, an attendee without 'email').
FetchedLists ==
    UNION {[1..n -> BOOLEAN] : n \in 0..MaxFetched}

\* The outcomes to consider for the requests for a tool.
GoogleFor(tool) ==
    CASE tool = "calendar_import_google" ->
             {[answer |-> "fails", items |-> << >>]}
             \cup {[answer |-> "ok", items |-> f] : f \in FetchedLists}
      [] tool \in {"calendar_create_event", "calendar_sync_google"} ->
             {[answer |-> a, items |-> << >>] : a \in {"ok", "fails"}}
      [] OTHER -> {[answer |-> "none", items |-> << >>]}

NoGoogle == [answer |-> "none", items |-> << >>]

\* The answer of an endpoint: the JSON body a handler returned (HTTP 200),
\* with its "success" value ("absent" when the body has no such key), the key
\* that carries the payload, the key that carries the failure text and the
\* imported_count; or the HTTP error of a raised exception, whose body is
\* {"detail": ...}.
Returned(success, payload, error, count) ==
    [status |-> 200, success |-> success, payload |-> payload,
     error |-> error, count |-> count, detail |-> ""]

Raised(status, detail) ==
    [status |-> status, success |-> "absent", payload |-> "none",
     error |-> "detail", count |-> 0, detail |-> detail]

\* An exception no handler catches (KeyError, ValueError): FastAPI answers 500.
Unhandled == Raised(500, "Internal Server Error")

\* What a handler leaves behind: the store, the answer, the Google Calendar
\* calls it issued, the emails it scheduled (none unless the handler adds
\* them).
Result(db, response, calls) ==
    [db |-> db, response |-> response, calls |-> calls, emails |-> << >>]

-----------------------------------------------------------------------------
(* mcp_calendar_server.py: Google Calendar, the tool handlers, call_tool *)

\* Mutant: every sync inserts a new Google event, whatever the event holds.
sync_to_google_calendar_AlwaysInsert(event, google) ==
    [call |-> "insert",
     id   |-> IF google.answer # "ok" THEN NoGoogleId ELSE InsertedId(event.id)]

\* sync_to_google_calendar: an update when the event has a google_event_id,
\* an insert otherwise; the id of the result, "" on any exception.
sync_to_google_calendar(event, google) ==
    LET known == event.google_event_id # NoGoogleId
    IN  [call |-> IF known THEN "update" ELSE "insert",
         id   |-> IF google.answer # "ok" THEN NoGoogleId
                  ELSE IF known THEN event.google_event_id
                  ELSE InsertedId(event.id)]

\* Mutant: the imported events are stored under the id of the Google event
\* but carry no id of their own.
import_from_google_calendar_NoId(db, google) ==
    LET items    == google.items
        bad      == {i \in 1..Len(items) : ~items[i]}
        stop     == IF bad = {} THEN Len(items) + 1
                    ELSE CHOOSE i \in bad : \A j \in bad : i <= j
        written  == IF google.answer = "ok" THEN 1..(stop - 1) ELSE {}
        imported == [i \in written |->
                        Event(NoGoogleId, "Imported",
                              ParsedTimes["2025-12-12T13:00:00Z"],
                              <<"google", i>>)]
    IN  [db |-> [k \in DOMAIN db \cup {<<"google", i>> : i \in written} |->
                    IF k \in DOMAIN db /\ k \notin {<<"google", i>> : i \in written}
                    THEN db[k] ELSE imported[k[2]]],
         imported_events |->
             IF google.answer = "ok" /\ bad = {} THEN imported ELSE << >>]

\* import_from_google_calendar: the loop stores each fetched event as it goes;
\* any exception (of the listing, of a malformed event) ends it in the except
\* branch, which returns [] and leaves what was stored so far.
import_from_google_calendar(db, google) ==
    LET items    == google.items
        bad      == {i \in 1..Len(items) : ~items[i]}
        stop     == IF bad = {} THEN Len(items) + 1
                    ELSE CHOOSE i \in bad : \A j \in bad : i <= j
        written  == IF google.answer = "ok" THEN 1..(stop - 1) ELSE {}
        imported == [i \in written |->
                        Event(<<"google", i>>, "Imported",
                              ParsedTimes["2025-12-12T13:00:00Z"],
                              <<"google", i>>)]
    IN  [db |-> [k \in DOMAIN db \cup {<<"google", i>> : i \in written} |->
                    IF k \in DOMAIN db /\ k \notin {<<"google", i>> : i \in written}
                    THEN db[k] ELSE imported[k[2]]],
         imported_events |->
             IF google.answer = "ok" /\ bad = {} THEN imported ELSE << >>]

\* create_event_tool of mcp_calendar_server.py; event_id is the fresh uuid.
create_event_tool(db, params, google, event_id) ==
    IF ~({"title", "start_time"} \subseteq DOMAIN params) THEN Result(db, Unhandled, << >>)
    ELSE IF ~CanParse(params.start_time) THEN Result(db, Unhandled, << >>)
    ELSE
        LET event  == [Event(event_id, params.title,
                             parse_datetime(params.start_time), NoGoogleId)
                          EXCEPT !.attendees =
                              IF "attendees" \in DOMAIN params
                              THEN params.attendees ELSE << >>]
            wanted == "sync_to_google" \in DOMAIN params /\ params.sync_to_google
            synced == sync_to_google_calendar(event, google)
            stored == IF wanted /\ synced.id # NoGoogleId
                      THEN [event EXCEPT !.google_event_id = synced.id]
                      ELSE event
        IN  [Result(Put(db, stored), Returned("true", "event", "none", 0),
                    IF wanted THEN << synced.call >> ELSE << >>)
                EXCEPT !.emails = NotifyAttendees(stored, "invitation")]

\* send_reminder_tool reads params["event_id"] and params["recipient"]
\* (KeyError) before it looks the event up.
send_reminder_tool(db, params) ==
    IF ~({"event_id", "recipient"} \subseteq DOMAIN params) THEN Result(db, Unhandled, << >>)
    ELSE IF params.event_id \notin DOMAIN db
    THEN Result(db, Raised(404, "Event not found"), << >>)
    ELSE [Result(db, Returned("true", "message", "none", 0), << >>)
             EXCEPT !.emails = << Email(params.recipient, "reminder") >>]

\* sync_google_tool: by event_id, or from raw details (a new event that is
\* stored only when the sync succeeded).
sync_google_tool(db, params, google, event_id) ==
    IF "event_id" \in DOMAIN params
    THEN IF params.event_id \notin DOMAIN db
         THEN Result(db, Raised(404, "Event not found"), << >>)
         ELSE LET event  == db[params.event_id]
                  synced == sync_to_google_calendar(event, google)
              IN  IF synced.id # NoGoogleId
                  THEN Result(Put(db, [event EXCEPT !.google_event_id = synced.id]),
                              Returned("true", "google_event_id", "none", 0),
                              << synced.call >>)
                  ELSE Result(db, Returned("false", "none", "message", 0),
                              << synced.call >>)
    ELSE IF "start_time" \notin DOMAIN params
    THEN Result(db, Raised(400, "calendar_sync_google expects either event_id or start_time and end_time."), << >>)
    ELSE IF ~CanParse(params.start_time) THEN Result(db, Unhandled, << >>)
    ELSE
        LET temp_event ==
                Event(event_id,
                      IF "title" \in DOMAIN params THEN params.title
                      ELSE "Untitled Event",
                      parse_datetime(params.start_time), NoGoogleId)
            synced == sync_to_google_calendar(temp_event, google)
        IN  IF synced.id # NoGoogleId
            THEN Result(Put(db, [temp_event EXCEPT !.google_event_id = synced.id]),
                        Returned("true", "google_event_id", "none", 0),
                        << synced.call >>)
            ELSE Result(db, Returned("false", "none", "message", 0),
                        << synced.call >>)

import_google_tool(db, google) ==
    LET r == import_from_google_calendar(db, google)
    IN  Result(r.db,
               Returned("true", "events", "none", Len(r.imported_events)),
               << "list" >>)

-----------------------------------------------------------------------------
(* email_mcp_server.py: the tool handlers *)

email_create_event_tool(db, params, event_id) ==
    IF ~({"title", "start_time"} \subseteq DOMAIN params) THEN Result(db, Unhandled, << >>)
    ELSE IF ~CanParse(params.start_time) THEN Result(db, Unhandled, << >>)
    ELSE Result(Put(db, [Event(event_id, params.title,
                               parse_datetime(params.start_time), NoGoogleId)
                            EXCEPT !.attendees =
                                IF "attendees" \in DOMAIN params
                                THEN params.attendees ELSE << >>]),
                Returned("true", "event", "none", 0), << >>)

\* {"events": [...]}: a body without "success".
email_get_events_tool(db, params) ==
    Result(db, Returned("absent", "events", "none", 0), << >>)

\* update_event_tool assigns the fields of the stored event one after the
\* other: title is assigned before start_time is parsed.
email_update_event_tool(db, params) ==
    IF "event_id" \notin DOMAIN params THEN Result(db, Unhandled, << >>)
    ELSE IF params.event_id \notin DOMAIN db
    THEN Result(db, Raised(404, "Event not found"), << >>)
    ELSE
        LET event  == db[params.event_id]
            titled == IF "title" \in DOMAIN params
                      THEN [event EXCEPT !.title = params.title] ELSE event
        IN  IF "start_time" \in DOMAIN params /\ ~CanParse(params.start_time)
            THEN Result(Put(db, titled), Unhandled, << >>)
            ELSE Result(Put(db, IF "start_time" \in DOMAIN params
                                THEN [titled EXCEPT !.start_time =
                                         parse_datetime(params.start_time)]
                                ELSE titled),
                        Returned("true", "event", "none", 0), << >>)

email_delete_event_tool(db, params) ==
    IF "event_id" \notin DOMAIN params THEN Result(db, Unhandled, << >>)
    ELSE IF params.event_id \notin DOMAIN db
    THEN Result(db, Raised(404, "Event not found"), << >>)
    ELSE Result(Remove(db, params.event_id),
                Returned("true", "deleted_id", "none", 0), << >>)

email_get_today_events_tool(db) ==
    Result(db, Returned("absent", "events", "none", 0), << >>)

-----------------------------------------------------------------------------
(* The MCP endpoints of the two servers *)

\* MCP_TOOLS at import: the names of the tool definitions of each program.
MCP_TOOLS(srv) ==
    IF srv = "email_mcp_server"
    THEN {"calendar_create_event", "calendar_get_events",
          "calendar_update_event", "calendar_delete_event",
          "calendar_get_today_events"}
    ELSE {"calendar_create_event", "calendar_send_reminder",
          "calendar_sync_google", "calendar_import_google"}

\* Mutant: call_tool of email_mcp_server.py has no branch for the delete tool.
DispatchedTools_NoDelete(srv) ==
    IF srv = "email_mcp_server"
    THEN {"calendar_create_event", "calendar_get_events",
          "calendar_update_event", "calendar_get_today_events"}
    ELSE ServerTools

\* The tool names the if/elif chain of call_tool has a branch for.
DispatchedTools(srv) ==
    IF srv = "email_mcp_server"
    THEN {"calendar_create_event", "calendar_get_events",
          "calendar_update_event", "calendar_delete_event",
          "calendar_get_today_events"}
    ELSE ServerTools

\* call_tool of either program: the else branch raises HTTPException(400),
\* a branch returns what its handler returns or raises.
mcp_call(srv, db, tool, params, google, event_id) ==
    IF tool \notin DispatchedTools(srv)
    THEN Result(db, Raised(400, "Unknown tool"), << >>)
    ELSE IF srv = "email_mcp_server"
    THEN CASE tool = "calendar_create_event" ->
                  email_create_event_tool(db, params, event_id)
           [] tool = "calendar_get_events" -> email_get_events_tool(db, params)
           [] tool = "calendar_update_event" -> email_update_event_tool(db, params)
           [] tool = "calendar_delete_event" -> email_delete_event_tool(db, params)
           [] OTHER -> email_get_today_events_tool(db)
    ELSE CASE tool = "calendar_create_event" ->
                  create_event_tool(db, params, google, event_id)
           [] tool = "calendar_send_reminder" -> send_reminder_tool(db, params)
           [] tool = "calendar_sync_google" ->
                  sync_google_tool(db, params, google, event_id)
           [] OTHER -> import_google_tool(db, google)

\* The tool names of the requests a program receives: its own tools, the
\* names the agent posts (the values of its TOOL_NAME_MAP) and a name no
\* program knows.
RequestTools(srv) ==
    MCP_TOOLS(srv) \cup {TOOL_NAME_MAP[a] : a \in DOMAIN TOOL_NAME_MAP}
    \cup {"bogus_tool"}

\* generate_event_id: an id that is not in use (the least one of the model);
\* MissingId when the ids of the model are used up.
generate_event_id(db) ==
    LET free == LocalIds \ DOMAIN db
    IN  IF free = {} THEN MissingId
        ELSE CHOOSE id \in free : \A other \in free : id[2] <= other[2]

\* One of the two programs has started: an empty store, its registry.
ServerInit ==
    /\ llm_with_tools = TRUE
    /\ ChatIdle
    /\ ProxyIdle
    /\ RunsIdle
    /\ server \in Servers
    /\ events_db = << >>
    /\ registry = MCP_TOOLS(server)
    /\ served = [endpoint |-> "none"]

\* POST /mcp/call {tool, parameters}: call_tool and the handler it runs.
PostMcpCall ==
    /\ \E tool \in RequestTools(server) :
       \E params \in ParametersFor(tool), google \in GoogleFor(tool) :
        LET r == mcp_call(server, events_db, tool, params, google,
                          generate_event_id(events_db))
        IN  /\ MissingId \notin DOMAIN r.db
            /\ events_db' = r.db
            /\ served' =
                 [endpoint   |-> "POST /mcp/call",
                  tool       |-> tool,
                  parameters |-> params,
                  google     |-> IF r.calls = << >> THEN NoGoogle ELSE google,
                  calls      |-> r.calls,
                  emails     |-> r.emails,
                  response   |-> r.response]
    /\ UNCHANGED <<server, registry, chatVars, proxyVars, runsVars>>

\* GET /mcp/tools
list_tools ==
    /\ served' = [endpoint |-> "GET /mcp/tools",
                  response |-> [status |-> 200, tools |-> registry]]
    /\ UNCHANGED <<server, events_db, registry, chatVars, proxyVars, runsVars>>

\* The ids of the paths /events/{event_id}: the first id that is given to an
\* event, and one that is never stored.
PathIds == {<<"uuid", 1>>, MissingId}

\* DELETE /events/{event_id}; mcp_calendar_server.py schedules the
\* cancellation emails before it deletes.
delete_event ==
    /\ \E event_id \in PathIds :
        IF event_id \in DOMAIN events_db
        THEN /\ events_db' = Remove(events_db, event_id)
             /\ served' = [endpoint |-> "DELETE /events/{event_id}",
                           event_id |-> event_id,
                           google   |-> NoGoogle,
                           calls    |-> << >>,
                           emails   |->
                               IF server = "mcp_calendar_server"
                               THEN NotifyAttendees(events_db[event_id],
                                                    "cancellation")
                               ELSE << >>,
                           response |->
                               Returned("true",
                                        IF server = "email_mcp_server"
                                        THEN "deleted_id" ELSE "none",
                                        "none", 0)]
        ELSE /\ events_db' = events_db
             /\ served' = [endpoint |-> "DELETE /events/{event_id}",
                           event_id |-> event_id,
                           google   |-> NoGoogle,
                           calls    |-> << >>,
                           emails   |-> << >>,
                           response |-> Raised(404, "Event not found")]
    /\ UNCHANGED <<server, registry, chatVars, proxyVars, runsVars>>

-----------------------------------------------------------------------------
(* The REST endpoints that address one event *)

\* The JSON bodies of PUT /events/{event_id}.
UpdateBodies ==
    {[title |-> "Review", start_time |-> s] : s \in TimeStrings}
    \cup {[title |-> "Review", start_time |-> s, end_time |-> e] :
            s \in TimeStrings, e \in TimeStrings}

\* class UpdateEventRequest: every field is optional in mcp_calendar_server.py;
\* in email_mcp_server.py end_time is a required datetime, which the
\* framework parses (422 when it is missing or is no date).
ValidUpdate(srv, request) ==
    srv = "email_mcp_server" =>
        "end_time" \in DOMAIN request /\ CanParse(request.end_time)

\* An answer whose body is the event itself or a list (no "success" key).
Found == Returned("absent", "event", "none", 0)

NotFound == Raised(404, "Event not found")

Unprocessable == Raised(422, "Unprocessable Entity")

\* update_event of either program: the fields of the stored event are
\* assigned in place, title before start_time before end_time. In
\* email_mcp_server.py request.end_time is a datetime, and parse_datetime of
\* a datetime raises TypeError (replace, then strptime).
update_event(srv, db, event_id, request) ==
    IF ~ValidUpdate(srv, request) THEN Result(db, Unprocessable, << >>)
    ELSE IF event_id \notin DOMAIN db THEN Result(db, NotFound, << >>)
    ELSE
        LET event   == db[event_id]
            titled  == IF "title" \in DOMAIN request
                       THEN [event EXCEPT !.title = request.title] ELSE event
            started == IF "start_time" \in DOMAIN request
                          /\ CanParse(request.start_time)
                       THEN [titled EXCEPT !.start_time =
                                parse_datetime(request.start_time)]
                       ELSE titled
        IN  IF "start_time" \in DOMAIN request /\ ~CanParse(request.start_time)
            THEN Result(Put(db, titled), Unhandled, << >>)
            ELSE IF srv = "email_mcp_server"
            THEN Result(Put(db, started), Unhandled, << >>)
            ELSE IF "end_time" \in DOMAIN request /\ ~CanParse(request.end_time)
            THEN Result(Put(db, started), Unhandled, << >>)
            ELSE [Result(Put(db, started), Found, << >>)
                     EXCEPT !.emails = NotifyAttendees(started, "update")]

\* get_event of either program.
get_event(db, event_id) ==
    IF event_id \notin DOMAIN db THEN Result(db, NotFound, << >>)
    ELSE Result(db, Found, << >>)

\* send_event_reminder of mcp_calendar_server.py; the body is an
\* EmailNotificationRequest, whose recipient is required.
send_event_reminder(db, event_id, request) ==
    IF "recipient" \notin DOMAIN request THEN Result(db, Unprocessable, << >>)
    ELSE IF event_id \notin DOMAIN db THEN Result(db, NotFound, << >>)
    ELSE [Result(db, Returned("true", "none", "none", 0), << >>)
             EXCEPT !.emails = << Email(request.recipient, "reminder") >>]

\* sync_event_to_google of mcp_calendar_server.py.
sync_event_to_google(db, event_id, google) ==
    IF event_id \notin DOMAIN db THEN Result(db, NotFound, << >>)
    ELSE LET event  == db[event_id]
             synced == sync_to_google_calendar(event, google)
         IN  IF synced.id # NoGoogleId
             THEN Result(Put(db, [event EXCEPT !.google_event_id = synced.id]),
                         Returned("true", "google_event_id", "none", 0),
                         << synced.call >>)
             ELSE Result(db, Returned("false", "none", "message", 0),
                         << synced.call >>)

\* What a REST endpoint leaves in served.
Served(endpoint, event_id, google, r) ==
    [endpoint |-> endpoint,
     event_id |-> event_id,
     google   |-> IF r.calls = << >> THEN NoGoogle ELSE google,
     calls    |-> r.calls,
     emails   |-> r.emails,
     response |-> r.response]

\* PUT /events/{event_id}
PutEvent ==
    /\ \E event_id \in PathIds, request \in UpdateBodies :
        LET r == update_event(server, events_db, event_id, request)
        IN  /\ events_db' = r.db
            /\ served' = Served("PUT /events/{event_id}", event_id,
                                NoGoogle, r)
    /\ UNCHANGED <<server, registry, chatVars, proxyVars, runsVars>>

\* GET /events/{event_id}
GetEvent ==
    /\ \E event_id \in PathIds :
        LET r == get_event(events_db, event_id)
        IN  /\ events_db' = r.db
            /\ served' = Served("GET /events/{event_id}", event_id,
                                NoGoogle, r)
    /\ UNCHANGED <<server, registry, chatVars, proxyVars, runsVars>>

\* POST /events/{event_id}/reminder (mcp_calendar_server.py only)
PostReminder ==
    /\ server = "mcp_calendar_server"
    /\ \E event_id \in PathIds :
       \E request \in {[event_id |-> event_id,
                        recipient |-> "guest@example.com"],
                       [event_id |-> event_id]} :
        LET r == send_event_reminder(events_db, event_id, request)
        IN  /\ events_db' = r.db
            /\ served' = Served("POST /events/{event_id}/reminder", event_id,
                                NoGoogle, r)
    /\ UNCHANGED <<server, registry, chatVars, proxyVars, runsVars>>

\* POST /events/{event_id}/sync-google (mcp_calendar_server.py only)
PostSyncGoogle ==
    /\ server = "mcp_calendar_server"
    /\ \E event_id \in PathIds, google \in GoogleFor("calendar_sync_google") :
        LET r == sync_event_to_google(events_db, event_id, google)
        IN  /\ events_db' = r.db
            /\ served' = Served("POST /events/{event_id}/sync-google",
                                event_id, google, r)
    /\ UNCHANGED <<server, registry, chatVars, proxyVars, runsVars>>

ServerNext ==
    \/ PostMcpCall
    \/ list_tools
    \/ delete_event
    \/ PutEvent
    \/ GetEvent
    \/ PostReminder
    \/ PostSyncGoogle

ServerSpec == ServerInit /\ [][ServerNext]_vars

-----------------------------------------------------------------------------
(* The proxy tool on its own: one invocation of mcp_calendar_tool *)

\* The names the tool is called with: every key of the alias table and a
\* name that is not in it.
ProxyNames == DOMAIN TOOL_NAME_MAP \cup {"bogus_tool"}

\* mcp_calendar_tool(tool_name, **kwargs) has been called.
ProxyInit ==
    /\ llm_with_tools = TRUE
    /\ ChatIdle
    /\ ServerIdle
    /\ RunsIdle
    /\ proxy \in {[state |-> "called", tool_name |-> t, kwargs |-> k] :
                    t \in ProxyNames, k \in Mappings(MaxDepth)}

\* The body of mcp_calendar_tool: params, mcp_tool_id, the POST of
\* {"tool": mcp_tool_id, "parameters": params} and the returned output.
ProxyCall ==
    /\ proxy.state = "called"
    /\ \E net \in Nets :
        proxy' = [state       |-> "returned",
                  tool_name   |-> proxy.tool_name,
                  kwargs      |-> proxy.kwargs,
                  params      |-> Normalize(proxy.kwargs),
                  mcp_tool_id |-> ResolveToolName(proxy.tool_name),
                  net         |-> net,
                  output      |-> mcp_calendar_tool(proxy.tool_name, net)]
    /\ UNCHANGED <<chatVars, serverVars, runsVars>>

ProxyNext == ProxyCall

ProxySpec == ProxyInit /\ [][ProxyNext]_vars

-----------------------------------------------------------------------------
(* Two /chat runs side by side *)

\* The two invocations of chat_with_agent and the message of each.
RunIds == {1, 2}

RunTexts == << "hello", "bye" >>

\* Mutant: the compiled graph keeps one state for all its invocations.
StateKey_Shared(run) == 1

\* graph.invoke({"messages": initial_messages}): the channels of an invocation
\* are built from its own input, and workflow.compile() is given no
\* checkpointer, so the state an invocation works on is its own.
StateKey(run) == run

\* The message list the steps of the invocation read and write.
RunMessages(run) == runs[StateKey(run)].messages

\* What the network and the server do with the calls of these runs.
RunNets == {"ok", "unreachable"}

\* The id of the n-th tool call the provider hands out in a run; ids differ
\* between the runs.
RunCallId(run, n) == 2 * (n - 1) + run

\* The turns chain.invoke may return in a run that has issued n tool calls: a
\* final turn, or a turn with one call of the proxy tool.
RunProviderTurns(run, n) ==
    {AIMessage(text, NoCalls) : text \in Texts}
    \cup
    (IF n < MaxRequests
     THEN {AIMessage(ToolTurnText,
              << ToolCall(RunCallId(run, n + 1),
                          [name |-> "mcp_calendar_tool",
                           args |-> [tool_name |-> "create_calendar_event_tool"]]) >>)}
     ELSE {})

RunsInit ==
    /\ llm_with_tools = TRUE
    /\ ChatIdle
    /\ ProxyIdle
    /\ ServerIdle
    /\ runs = [r \in RunIds |->
                 [pc |-> "idle", messages |-> << >>, steps |-> 0, issued |-> 0,
                  produced |-> << >>, outcome |-> NoOutcome]]

\* chat_with_agent up to graph.invoke, for one request.
RunStart(r) ==
    /\ runs[r].pc = "idle"
    /\ LET seed == << HumanMessage(RunTexts[r]) >>
       IN  runs' = [runs EXCEPT ![StateKey(r)].messages = seed,
                                ![r].produced = seed,
                                ![r].pc = "agent"]
    /\ UNCHANGED <<chatVars, proxyVars, serverVars>>

\* One superstep of node "agent" in the invocation r.
RunAgent(r) ==
    /\ runs[r].pc = "agent"
    /\ runs[r].steps < RecursionLimit
    /\ \E result \in RunProviderTurns(r, runs[r].issued) :
        LET update == run_llm(llm_with_tools, RunMessages(r), result)
            new    == operator_add(RunMessages(r), update)
            next   == AfterAgent(new)
        IN  runs' = [runs EXCEPT
                        ![StateKey(r)].messages = new,
                        ![r].produced = @ \o update,
                        ![r].issued = @ + Len(result.tool_calls),
                        ![r].steps = @ + 1,
                        ![r].pc = IF next = "END" THEN "done" ELSE next,
                        ![r].outcome = IF next = "END" THEN ChatResponse(new)
                                       ELSE @]
    /\ UNCHANGED <<chatVars, proxyVars, serverVars>>

\* Node "agent" of the invocation r when chain.invoke raises.
RunAgentFails(r) ==
    /\ runs[r].pc = "agent"
    /\ runs[r].steps < RecursionLimit
    /\ runs' = [runs EXCEPT ![r].pc = "done",
                            ![r].outcome = HTTPException(500, "AI Agent Error")]
    /\ UNCHANGED <<chatVars, proxyVars, serverVars>>

\* One superstep of node "action" in the invocation r.
RunAction(r) ==
    /\ runs[r].pc = "action"
    /\ runs[r].steps < RecursionLimit
    /\ \E nets \in [1..Len(ToolCallsToRun(RunMessages(r))) -> RunNets] :
        LET update == execute_tools(RunMessages(r), nets)
        IN  runs' = [runs EXCEPT
                        ![StateKey(r)].messages =
                            operator_add(RunMessages(r), update),
                        ![r].produced = @ \o
                            SubSeq(update, Len(update) - Len(nets) + 1,
                                   Len(update)),
                        ![r].steps = @ + 1,
                        ![r].pc = AfterAction]
    /\ UNCHANGED <<chatVars, proxyVars, serverVars>>

\* The recursion limit ends the invocation r.
RunLimit(r) ==
    /\ runs[r].pc \in {"agent", "action"}
    /\ runs[r].steps = RecursionLimit
    /\ runs' = [runs EXCEPT ![r].pc = "done",
                            ![r].outcome = HTTPException(500, "AI Agent Error")]
    /\ UNCHANGED <<chatVars, proxyVars, serverVars>>

\* The steps of the two invocations, in any interleaving.
RunsNext ==
    \E r \in RunIds :
        \/ RunStart(r)
        \/ RunAgent(r)
        \/ RunAgentFails(r)
        \/ RunAction(r)
        \/ RunLimit(r)

RunsSpec == RunsInit /\ [][RunsNext]_vars

-----------------------------------------------------------------------------
(* Properties of the conversation *)

IsToolTurn(m) == m.type = "tool"
HasRequests(m) == m.type = "ai" /\ m.tool_calls # NoCalls
RequestIds(m) == {m.tool_calls[j].id : j \in 1..Len(m.tool_calls)}

\* In msgs, every assistant turn with n >= 1 requests is followed directly by
\* exactly n tool-result turns carrying the ids of its requests, and every
\* tool-result turn is one of those.
WellPaired(msgs) ==
    /\ \A i \in 1..Len(msgs) :
        HasRequests(msgs[i]) =>
            LET n == Len(msgs[i].tool_calls)
            IN  /\ i + n <= Len(msgs)
                /\ \A j \in 1..n : IsToolTurn(msgs[i + j])
                /\ {msgs[i + j].tool_call_id : j \in 1..n} = RequestIds(msgs[i])
                /\ (i + n < Len(msgs) => ~IsToolTurn(msgs[i + n + 1]))
    /\ \A k \in 1..Len(msgs) :
        IsToolTurn(msgs[k]) =>
            \E i \in 1..(k - 1) :
                /\ HasRequests(msgs[i])
                /\ k - i <= Len(msgs[i].tool_calls)

\* C1: whenever the graph is about to run a decision step, i.e. after any
\* number of completed loop iterations, the message list it holds pairs
\* every assistant turn that has requests with exactly its tool results.
C1_ResultsPairedWithRequests ==
    pc = "agent" => WellPaired(messages)

\* C2: the history handed to the Decision Provider at a decision step is the
\* seed user turn followed by every produced turn, each exactly once, in
\* production order.
C2_HistoryIsProducedTurns ==
    pc = "agent" => messages = produced

-----------------------------------------------------------------------------
(* Properties of the loop *)

\* The run ended by the graph reaching END: /chat answered with a response.
Terminated == pc = "done" /\ outcome.kind = "response"

\* The largest number of decision steps RecursionLimit supersteps allow.
MaxDecisions == (RecursionLimit + 1) \div 2

\* C3: the run always ends, within RecursionLimit supersteps; and when the
\* provider returns its first turn without tool requests at decision step k,
\* the run is TERMINATED after exactly k decision steps (and the k - 1 tool
\* steps between them), k being at most the number of decision steps the
\* limit allows.
C3_TerminatesAtFirstEmptyTurn ==
    /\ <>(pc = "done")
    /\ [](steps <= RecursionLimit)
    /\ [](firstEmpty # 0 =>
            /\ Terminated
            /\ decisions = firstEmpty
            /\ steps = 2 * firstEmpty - 1
            /\ firstEmpty <= MaxDecisions)

\* A provider that requests tools at every decision step but the last one
\* the limit allows, where it returns its first turn without requests.
C3_Witness ==
    /\ Terminated
    /\ firstEmpty = MaxDecisions
    /\ firstEmpty >= 2

\* C4: when the provider requests tools on every decision step and the
\* iteration limit ends the run, the conversation ends with a synthetic
\* assistant turn saying so and the caller receives it as a response.
C4_LimitEndsWithSyntheticTurn ==
    (pc = "done" /\ llm_with_tools /\ firstEmpty = 0 /\ llmFailedAt = 0) =>
        /\ outcome.kind = "response"
        /\ Last(messages).type = "ai"
        /\ Last(messages).tool_calls = NoCalls
        /\ outcome.body = Last(messages).content
        /\ outcome.body.text = "exceeded maximum tool-call iterations"

\* C6: once the provider has failed at a decision step, the run is over with
\* no further decision or tool step, and the caller has received the
\* service-unavailable outcome, the one /chat gives when the LLM backend is
\* unavailable.
C6_ProviderFailureIsServiceUnavailable ==
    llmFailedAt # 0 =>
        /\ pc = "done"
        /\ decisions = llmFailedAt - 1
        /\ outcome = HTTPException(503, "LLM backend is unavailable")

\* C9: once a decision step has returned a turn without tool requests, that
\* turn is the last of the conversation, no decision or tool step has run
\* after it, and the /chat response is exactly its text.
C9_FinalTurnIsTheResponse ==
    firstEmpty # 0 =>
        /\ pc = "done"
        /\ decisions = firstEmpty
        /\ lastNode = "agent"
        /\ Last(messages) = Last(produced)
        /\ Last(produced).type = "ai" /\ Last(produced).tool_calls = NoCalls
        /\ outcome = [kind |-> "response", status |-> 200,
                      body |-> Last(produced).content]

\* A run that executed a tool and then answered with a text that differs
\* from the user's.
C9_Witness ==
    /\ firstEmpty = 2
    /\ Len(executed) >= 1
    /\ outcome.kind = "response"
    /\ outcome.body # produced[1].content

-----------------------------------------------------------------------------
(* Properties of the steps *)

\* Index in msgs of the most recent assistant turn.
LastAssistantIndex(msgs) ==
    CHOOSE i \in 1..Len(msgs) :
        /\ msgs[i].type = "ai"
        /\ \A k \in (i + 1)..Len(msgs) : msgs[k].type # "ai"

\* Everything after the most recent assistant turn of msgs is a tool result,
\* one for each of its requests.
AllResultsAppended(msgs) ==
    LET i == LastAssistantIndex(msgs)
    IN  /\ Len(msgs) - i = Len(msgs[i].tool_calls)
        /\ \A k \in (i + 1)..Len(msgs) : IsToolTurn(msgs[k])
        /\ {msgs[k].tool_call_id : k \in (i + 1)..Len(msgs)} = RequestIds(msgs[i])

\* C5: decision steps and tool steps strictly alternate, starting with a
\* decision step; a tool step runs only directly after a decision step whose
\* turn has requests; a decision step starts only at the start of the run or
\* directly after a tool step that appended a result for every request of
\* the current assistant turn; TERMINATED is entered only by a decision
\* step and never left.
C5_StrictAlternation ==
    [][ LET nodeRan  == steps' = steps + 1
            toolStep == nodeRan /\ lastNode' = "action"
            decisionStarted ==
                decisions' # decisions \/ llmFailedAt' # llmFailedAt
        IN  /\ nodeRan => (toolStep \/ decisionStarted)
            /\ toolStep =>
                /\ ~decisionStarted
                /\ lastNode = "agent"
                /\ HasRequests(Last(messages))
            /\ decisionStarted =>
                \/ lastNode = "none" /\ steps = 0
                \/ lastNode = "action" /\ AllResultsAppended(messages)
            /\ (~Terminated /\ Terminated') =>
                decisions' = decisions + 1 /\ lastNode' = "agent"
            /\ Terminated => UNCHANGED vars
      ]_vars

\* A run with two decision steps around a tool step, then TERMINATED.
C5_Witness ==
    /\ Terminated
    /\ decisions = 3
    /\ Len(executed) >= 2

\* The assistant turn whose requests the last tool step executed, and the
\* result that step appended for its j-th request.
ExecutedTurn == messages[LastAssistantIndex(messages)]
ResultOf(j) == messages[LastAssistantIndex(messages) + j]

\* After a tool step the run goes on to the next decision step: the graph
\* is at node "agent", or the run ended later for another reason (that
\* decision step failed, or the recursion limit allowed no further step).
LoopContinues ==
    \/ pc = "agent"
    \/ pc = "done" /\ outcome.kind = "error"
                   /\ (llmFailedAt = decisions + 1 \/ steps = RecursionLimit)

\* A request whose name cannot be resolved, and the name that is unknown.
Unresolvable(call) ==
    \/ call.name # "mcp_calendar_tool"
    \/ /\ "tool_name" \in DOMAIN call.args
       /\ call.args.tool_name \notin DOMAIN TOOL_NAME_MAP

UnknownName(call) ==
    IF call.name # "mcp_calendar_tool" THEN call.name ELSE call.args.tool_name

\* C7 as stated: after a tool step, every request with an unresolvable name
\* has a result with success false and an error naming the unknown tool, and
\* the loop continues.
C7_UnknownToolErrorNamesTool ==
    lastNode = "action" =>
        /\ LoopContinues
        /\ \A j \in 1..Len(ExecutedTurn.tool_calls) :
            Unresolvable(ExecutedTurn.tool_calls[j]) =>
                /\ IsToolTurn(ResultOf(j))
                /\ ResultOf(j).tool_call_id = ExecutedTurn.tool_calls[j].id
                /\ ResultOf(j).content.success = FALSE
                /\ ResultOf(j).content.names = UnknownName(ExecutedTurn.tool_calls[j])

\* C7 as amended: the error names the unknown tool when the name is refused
\* by execute_tools or by the MCP server's answer; when the server cannot be
\* reached or its answer is not JSON, the error reports that instead.
C7_UnknownToolIsRecovered ==
    lastNode = "action" =>
        /\ LoopContinues
        /\ \A j \in 1..Len(ExecutedTurn.tool_calls) :
            Unresolvable(ExecutedTurn.tool_calls[j]) =>
                /\ IsToolTurn(ResultOf(j))
                /\ ResultOf(j).tool_call_id = ExecutedTurn.tool_calls[j].id
                /\ ResultOf(j).content.success = FALSE
                /\ CASE lastNets[j] = "unreachable" ->
                          ResultOf(j).content.error =
                              "Error communicating with MCP Server"
                     [] lastNets[j] = "garbled" ->
                          ResultOf(j).content.error =
                              "MCP server returned non-JSON response"
                     [] OTHER ->
                          ResultOf(j).content.names =
                              UnknownName(ExecutedTurn.tool_calls[j])

\* A tool step that executed a request for a tool that is not bound and one
\* for an unknown tool_name the server refused, followed by a decision step.
C7_Witness ==
    /\ lastNode = "agent"
    /\ decisions = 2
    /\ \E i, k \in 1..Len(messages) :
        /\ IsToolTurn(messages[i]) /\ IsToolTurn(messages[k])
        /\ messages[i].content.error = "Unknown tool requested"
        /\ messages[i].content.names = "send_email"
        /\ messages[k].content.status = 400
        /\ messages[k].content.names = "bogus_tool"

\* The handler of a request failed: the proxy tool could not be invoked, the
\* server was unreachable, answered with an HTTP error status or with a body
\* that is not JSON.
HandlerFailed(call, net) ==
    /\ call.name = "mcp_calendar_tool"
    /\ \/ ~UsesNetwork(call)
       \/ net # "ok"
       \/ ResolveToolName(call.args.tool_name) \notin ServerTools

\* C8: after a tool step, every request of the assistant turn has its result
\* (none is skipped because another failed), the result of a request whose
\* handler failed has success false and an error message, and the loop
\* continues.
C8_ToolFailuresAreResults ==
    lastNode = "action" =>
        /\ LoopContinues
        /\ AllResultsAppended(messages)
        /\ Len(lastNets) = Len(ExecutedTurn.tool_calls)
        /\ \A j \in 1..Len(ExecutedTurn.tool_calls) :
            /\ ResultOf(j).tool_call_id = ExecutedTurn.tool_calls[j].id
            /\ IF HandlerFailed(ExecutedTurn.tool_calls[j], lastNets[j])
               THEN /\ ResultOf(j).content.success = FALSE
                    /\ ResultOf(j).content.error # ""
               ELSE ResultOf(j).content.success = TRUE
                        <=> ExecutedTurn.tool_calls[j].name = "mcp_calendar_tool"

\* A tool step whose first request failed on the network and whose second
\* request was still executed and succeeded.
C8_Witness ==
    /\ lastNode = "action"
    /\ pc = "agent"
    /\ Len(lastNets) = 2
    /\ lastNets[1] = "unreachable" /\ ResultOf(1).content.success = FALSE
    /\ lastNets[2] = "ok" /\ ResultOf(2).content.success = TRUE

\* How often the executor was handed the request id.
TimesExecuted(id) == Cardinality({k \in 1..Len(executed) : executed[k] = id})

\* The ids the provider has issued in the run.
IssuedIds == 1..(nextId - 1)

PendingIds ==
    IF produced # << >> /\ HasRequests(Last(produced))
    THEN RequestIds(Last(produced)) ELSE {}

-----------------------------------------------------------------------------
(* Properties of the proxy tool *)

\* The key "kwargs" is bound to a mapping.
Wrapped(m) == "kwargs" \in DOMAIN m /\ IsMapping(m["kwargs"])

\* The wrapper key is the single key and is bound to a mapping.
SingleWrapper(m) == DOMAIN m = {"kwargs"} /\ Wrapped(m)

\* No value of the mapping is itself a mapping.
Flat(m) == \A k \in DOMAIN m : ~IsMapping(m[k])

\* C11: the effective arguments are the inner mapping when the raw arguments
\* are a single wrapper key bound to a mapping; in every other case (several
\* keys, a wrapper key next to sibling keys, a wrapper not bound to a mapping)
\* they are the arguments as given, with no key dropped.
C11_OnlySingleWrapperIsUnwrapped ==
    proxy.state = "returned" =>
        proxy.params = IF SingleWrapper(proxy.kwargs)
                       THEN proxy.kwargs["kwargs"]
                       ELSE proxy.kwargs

\* C12 as stated: normalizing the effective arguments again yields them
\* again, for all arguments; a flat mapping normalizes to itself; a single
\* wrapper {"kwargs": m} normalizes to m, whatever m contains.
C12_NormalizationIdempotent ==
    proxy.state = "returned" =>
        /\ Normalize(proxy.params) = proxy.params
        /\ Flat(proxy.kwargs) => proxy.params = proxy.kwargs
        /\ SingleWrapper(proxy.kwargs) => proxy.params = proxy.kwargs["kwargs"]

\* C12 as amended: normalization removes exactly one wrapper level. A flat
\* mapping normalizes to itself; {"kwargs": m} normalizes to m, whatever m
\* contains; normalizing again yields the same mapping exactly when the
\* effective arguments have no wrapper of their own, and otherwise removes
\* that next wrapper.
C12_NormalizationUnwrapsOneLevel ==
    proxy.state = "returned" =>
        /\ Flat(proxy.kwargs) => proxy.params = proxy.kwargs
        /\ SingleWrapper(proxy.kwargs) => proxy.params = proxy.kwargs["kwargs"]
        /\ ~Wrapped(proxy.kwargs) => proxy.params = proxy.kwargs
        /\ IF Wrapped(proxy.params)
           THEN /\ Normalize(proxy.params) = proxy.params["kwargs"]
                /\ Normalize(proxy.params) # proxy.params
           ELSE Normalize(proxy.params) = proxy.params

\* The tool was called with {"kwargs": m}, m itself holding the key "kwargs"
\* bound to a mapping, and posted m.
C12_Witness ==
    /\ proxy.state = "returned"
    /\ SingleWrapper(proxy.kwargs)
    /\ Wrapped(proxy.kwargs["kwargs"])
    /\ proxy.params = proxy.kwargs["kwargs"]

\* The four tools: the LLM-facing alias and the canonical id of each.
AliasTable ==
    {<<"create_calendar_event_tool", "calendar_create_event">>,
     <<"send_calendar_reminder_tool", "calendar_send_reminder">>,
     <<"sync_google_calendar_tool", "calendar_sync_google">>,
     <<"import_google_calendar_tool", "calendar_import_google">>}

\* C13: for each of the four tools, a call under the alias and a call under
\* the canonical id post the canonical id, an operation the server dispatches,
\* with the parameters the arguments alone determine, and get the answer the
\* canonical id gets; resolving the posted id yields that id again.
C13_AliasAndCanonicalDispatchAlike ==
    proxy.state = "returned" =>
        /\ ResolveToolName(proxy.mcp_tool_id) = proxy.mcp_tool_id
        /\ \A p \in AliasTable :
            proxy.tool_name \in {p[1], p[2]} =>
                /\ proxy.mcp_tool_id = p[2]
                /\ p[2] \in ServerTools
                /\ proxy.params = Normalize(proxy.kwargs)
                /\ proxy.output = PostToServer(p[2], proxy.net)

\* A call under an alias that reached the handler of its canonical id.
C13_Witness ==
    /\ proxy.state = "returned"
    /\ proxy.tool_name = "sync_google_calendar_tool"
    /\ proxy.mcp_tool_id = "calendar_sync_google"
    /\ proxy.net = "ok"
    /\ proxy.output.success = TRUE
-----------------------------------------------------------------------------
(* Properties of the /chat endpoint and of the log *)

\* C14: whatever the provider, the network and the MCP server do, a /chat
\* invocation that is over has given its caller either the final assistant
\* message (HTTP 200) or an explicit service error (HTTP 503 or 500 with a
\* detail), and nothing before it is over; an error is given only when the
\* LLM backend is unavailable, the provider raised or the recursion limit was
\* hit, never because a tool call failed.
C14_CallerGetsMessageOrServiceError ==
    IF pc = "done"
    THEN \/ /\ outcome.kind = "response"
            /\ outcome.status = 200
            /\ Last(messages).type = "ai"
            /\ Last(messages).tool_calls = NoCalls
            /\ outcome.body = Last(messages).content
         \/ /\ outcome.kind = "error"
            /\ outcome.status \in {500, 503}
            /\ outcome.body.text # ""
            /\ \/ ~llm_with_tools /\ outcome.status = 503
               \/ llmFailedAt # 0
               \/ steps = RecursionLimit
    ELSE outcome = NoOutcome

\* A run in which a tool call failed on the network, the loop went on, and
\* the provider raised at the next decision step.
C14_Witness ==
    /\ pc = "done"
    /\ outcome.kind = "error"
    /\ outcome.status = 500
    /\ llmFailedAt = 2
    /\ lastNets = << "unreachable" >>
    /\ Last(messages).content.success = FALSE

\* C15: after a tool step, the tool-result turns of the executed assistant
\* turn are the last turns of the conversation, in request order: result j
\* is the result of request j and carries its id, whatever each call's
\* outcome was.
C15_ResultsInRequestOrder ==
    lastNode = "action" =>
        LET calls == ExecutedTurn.tool_calls
            n     == Len(calls)
        IN  /\ n >= 1
            /\ Len(lastNets) = n
            /\ SubSeq(messages, Len(messages) - n + 1, Len(messages)) =
                   [j \in 1..n |->
                       ToolMessage(ToolOutput(calls[j], lastNets[j]), calls[j].id)]
            /\ \A i, j \in 1..n :
                   i < j => ResultOf(i).tool_call_id < ResultOf(j).tool_call_id

\* A tool step with three requests: the first succeeded, the second failed
\* in its handler, the third was refused as a tool that is not bound.
C15_Witness ==
    /\ lastNode = "action"
    /\ Len(lastNets) = 3
    /\ lastNets[1] = "ok" /\ ResultOf(1).content.success = TRUE
    /\ lastNets[2] = "raises" /\ ResultOf(2).content.status = 404
    /\ lastNets[3] = "none" /\ ResultOf(3).content.names = "send_email"

\* C20: every step of a run leaves the message list it found as a prefix of
\* the message list it leaves.
C20_LogIsAppendOnly ==
    [][ /\ Len(messages) <= Len(messages')
        /\ SubSeq(messages', 1, Len(messages)) = messages
      ]_vars

\* A decision step has run after a tool step whose update repeated the
\* history: the list is longer than the turns produced, the seed turn first.
C20_Witness ==
    /\ lastNode = "agent"
    /\ decisions = 2
    /\ Len(messages) > Len(produced)
    /\ messages[1] = produced[1]
    /\ Last(messages) = Last(produced)
-----------------------------------------------------------------------------
(* Properties of concurrent runs *)

\* The turns of a list of messages.
Turns(msgs) == {msgs[i] : i \in 1..Len(msgs)}

\* C16: in every step of two runs that interleave in any way, a run that did
\* not take the step keeps its message list (and its whole state) as it was,
\* and the message list of each run holds only the run's own seed user turn,
\* first, and turns produced by the run's own steps.
C16_RunsAreDisjoint ==
    [][ \A r \in RunIds :
          /\ (runs'[r].pc = runs[r].pc /\ runs'[r].steps = runs[r].steps) =>
                /\ RunMessages(r)' = RunMessages(r)
                /\ runs'[r] = runs[r]
          /\ runs'[r].pc # "idle" =>
                /\ RunMessages(r)'[1] = HumanMessage(RunTexts[r])
                /\ Turns(RunMessages(r)') = Turns(runs'[r].produced)
      ]_vars

\* Both runs have completed a tool step and are about to decide again; their
\* message lists differ.
C16_Witness ==
    /\ runs # << >>
    /\ \A r \in RunIds : runs[r].pc = "agent" /\ runs[r].steps = 2
    /\ RunMessages(1) # RunMessages(2)
    /\ Last(RunMessages(1)).content.success = TRUE
    /\ Last(RunMessages(2)).content.success = FALSE
-----------------------------------------------------------------------------
(* Properties of the MCP servers *)

\* The Google Calendar operation of the served request failed: the client
\* raised, or a fetched event was malformed and the import loop raised.
GoogleFailed(s) ==
    \/ s.google.answer = "fails"
    \/ \E i \in 1..Len(s.google.items) : ~s.google.items[i]

\* The effect of the served request s on the store is complete, db being the
\* store before and after: create stored a new event, synced when asked to;
\* sync left the event it names, or the new event it made, with a
\* google_event_id; import stored every fetched event and counted them.
EffectComplete(s, before, after) ==
    CASE s.tool = "calendar_create_event" ->
             \E id \in DOMAIN after \ DOMAIN before :
                 "sync_to_google" \in DOMAIN s.parameters =>
                     after[id].google_event_id # NoGoogleId
      [] s.tool = "calendar_sync_google" ->
             IF "event_id" \in DOMAIN s.parameters
             THEN /\ s.parameters.event_id \in DOMAIN after
                  /\ after[s.parameters.event_id].google_event_id # NoGoogleId
             ELSE \E id \in DOMAIN after \ DOMAIN before :
                      after[id].google_event_id # NoGoogleId
      [] OTHER ->
             /\ s.response.count = Len(s.google.items)
             /\ \A i \in 1..Len(s.google.items) : <<"google", i>> \in DOMAIN after

\* C17: a call of create, sync or import on mcp_calendar_server.py either
\* answers success true with its effect on the store complete, or reports a
\* failure; when its Google Calendar operation failed it does not answer
\* success true; when it reports a failure the store is as before the call.
C17_ToolCallsAreAtomic ==
    [][ ( /\ server = "mcp_calendar_server"
          /\ served'.endpoint = "POST /mcp/call"
          /\ served'.tool \in {"calendar_create_event", "calendar_sync_google",
                               "calendar_import_google"} ) =>
            /\ GoogleFailed(served') => served'.response.success # "true"
            /\ served'.response.success = "true" =>
                   EffectComplete(served', events_db, events_db')
            /\ served'.response.success # "true" => events_db' = events_db
      ]_vars

\* C18: POST /mcp/call answers every request with a result: success true
\* with a payload for a registered tool whose handler succeeded, and
\* otherwise (unknown tool, handler failure) a failure - success false, or
\* an HTTP error with its detail - that leaves the store as it was.
C18_DirectCallReturnsToolResult ==
    [][ served'.endpoint = "POST /mcp/call" =>
            \/ /\ served'.tool \in registry
               /\ served'.response.status = 200
               /\ served'.response.success = "true"
               /\ served'.response.payload # "none"
            \/ /\ \/ served'.response.success = "false"
                  \/ served'.response.status >= 400
               /\ served'.response.error # "none"
               /\ events_db' = events_db
      ]_vars

\* C19: whatever requests a server has answered, its registry is the one of
\* its start and GET /mcp/tools lists it; the listed names are the names
\* call_tool has a branch for, and a POST /mcp/call is refused as an unknown
\* tool exactly when its tool is not listed.
C19_RegistryIsStaticAndCallable ==
    /\ registry = MCP_TOOLS(server)
    /\ registry = DispatchedTools(server)
    /\ served.endpoint = "GET /mcp/tools" =>
           served.response = [status |-> 200, tools |-> MCP_TOOLS(server)]
    /\ served.endpoint = "POST /mcp/call" =>
           (served.response = Raised(400, "Unknown tool")
               <=> served.tool \notin registry)

\* The tools are listed after events were created and one was deleted.
C19_Witness ==
    /\ served.endpoint = "GET /mcp/tools"
    /\ server = "email_mcp_server"
    /\ DOMAIN events_db = {<<"uuid", 2>>}
    /\ "calendar_delete_event" \in served.response.tools

-----------------------------------------------------------------------------
(* Properties of the event store *)

\* The served request is an update of a stored event: PUT /events/{event_id}
\* of either program, or the calendar_update_event tool.
IsUpdate(s) ==
    \/ s.endpoint = "PUT /events/{event_id}"
    \/ s.endpoint = "POST /mcp/call" /\ s.tool = "calendar_update_event"

\* C21: an update that is answered with an error leaves the store as it was
\* before the request: no field of the event keeps a value of the request.
C21_FailedUpdateLeavesEventUnchanged ==
    [][ (IsUpdate(served') /\ served'.response.status # 200) =>
            events_db' = events_db
      ]_vars

\* The tool ids the agent posts: the values of its alias table.
CanonicalIds == {TOOL_NAME_MAP[a] : a \in DOMAIN TOOL_NAME_MAP}

\* C22: whichever of the two programs serves the agent, a POST /mcp/call
\* whose tool is a value of the agent's alias table is dispatched to a
\* handler: it is never refused as an unknown tool.
C22_AliasTargetsAreDispatched ==
    (served.endpoint = "POST /mcp/call" /\ served.tool \in CanonicalIds) =>
        /\ served.tool \in DispatchedTools(server)
        /\ served.response # Raised(400, "Unknown tool")

\* The served request s is a sync of the stored event k: the
\* calendar_sync_google tool by event_id, or POST /events/{k}/sync-google.
IsSyncOf(s, k) ==
    \/ /\ s.endpoint = "POST /mcp/call"
       /\ s.tool = "calendar_sync_google"
       /\ "event_id" \in DOMAIN s.parameters
       /\ s.parameters.event_id = k
    \/ /\ s.endpoint = "POST /events/{event_id}/sync-google"
       /\ s.event_id = k

\* C23: in every step, a sync of a stored event that has a google_event_id
\* issues an update and no insert, and leaves that google_event_id in place;
\* the google_event_id of a stored event changes only from none to the id
\* that a successful insert of a sync of that event returned; and a new
\* event is stored with a google_event_id only by a request whose Google
\* Calendar call succeeded.
C23_OneInsertPerEvent ==
    [][ /\ \A k \in DOMAIN events_db :
            /\ (IsSyncOf(served', k) /\ server = "mcp_calendar_server"
                    /\ events_db[k].google_event_id # NoGoogleId) =>
                   /\ served'.calls = << "update" >>
                   /\ k \in DOMAIN events_db'
                   /\ events_db'[k].google_event_id = events_db[k].google_event_id
            /\ (k \in DOMAIN events_db'
                    /\ events_db'[k].google_event_id # events_db[k].google_event_id) =>
                   /\ events_db[k].google_event_id = NoGoogleId
                   /\ events_db'[k].google_event_id # NoGoogleId
                   /\ IsSyncOf(served', k)
                   /\ served'.calls = << "insert" >>
                   /\ served'.google.answer = "ok"
        /\ \A k \in DOMAIN events_db' \ DOMAIN events_db :
            events_db'[k].google_event_id # NoGoogleId =>
                /\ served'.calls \in {<< "insert" >>, << "list" >>}
                /\ served'.google.answer = "ok"
      ]_vars

\* An event that a create with sync_to_google inserted into Google Calendar
\* was synced again by POST /events/{id}/sync-google: an update that
\* succeeded and left the google_event_id of the insert.
C23_Witness ==
    /\ served.endpoint = "POST /events/{event_id}/sync-google"
    /\ served.calls = << "update" >>
    /\ served.response.success = "true"
    /\ served.event_id \in DOMAIN events_db
    /\ events_db[served.event_id].google_event_id = InsertedId(served.event_id)

\* The event k was stored and then deleted, and no event was stored under k
\* since: ids are given in order, so an id that is free while a later one is
\* in use was in use before.
WasDeleted(db, k) ==
    /\ k \in LocalIds \ DOMAIN db
    /\ \E j \in LocalIds \cap DOMAIN db : j[2] > k[2]

\* The served request s is an operation on the event id k that reached its
\* handler: a REST request on /events/{k} whose body was accepted, or a call
\* of a tool that the program dispatches, with event_id k.
Addresses(s, k) ==
    \/ /\ s.endpoint \in {"GET /events/{event_id}", "PUT /events/{event_id}",
                          "DELETE /events/{event_id}",
                          "POST /events/{event_id}/reminder",
                          "POST /events/{event_id}/sync-google"}
       /\ s.event_id = k
       /\ s.response # Unprocessable
    \/ /\ s.endpoint = "POST /mcp/call"
       /\ s.tool \in DispatchedTools(server)
       /\ "event_id" \in DOMAIN s.parameters
       /\ s.parameters.event_id = k

\* C24: an operation on the id of a deleted event is answered 404 'Event not
\* found', leaves the store as it was, schedules no email and issues no
\* Google Calendar call.
C24_DeletedIdIsNotFound ==
    [][ \A k \in LocalIds :
            (WasDeleted(events_db, k) /\ Addresses(served', k)) =>
                /\ served'.response = NotFound
                /\ events_db' = events_db
                /\ served'.emails = << >>
                /\ served'.calls = << >>
      ]_vars

\* C25: every entry of the event store is stored under its own id.
C25_StoredUnderOwnId ==
    \A k \in DOMAIN events_db : events_db[k].id = k

\* The store holds an imported event next to two created ones, the first of
\* which was synced to Google Calendar and has just been updated.
C25_Witness ==
    /\ served.endpoint = "PUT /events/{event_id}"
    /\ served.response = Found
    /\ {<<"uuid", 1>>, <<"uuid", 2>>, <<"google", 1>>} \subseteq DOMAIN events_db
    /\ events_db[<<"uuid", 1>>].title = "Review"
    /\ events_db[<<"uuid", 1>>].google_event_id # NoGoogleId
=============================================================================
